---------------------------- MODULE Spec2Model ----------------------------
(***************************************************************************)
(* Route geometry engine and route model builder of RouteAPI               *)
(* (src/API_/route_API.py).                                                *)
(*                                                                         *)
(* Every public operation is a synchronous, state-free call, so the state  *)
(* of the model is the last call: the operation, its arguments and what it *)
(* returned.  One action per operation draws the arguments from bounded    *)
(* sets and applies the operation, which is an operator translated from    *)
(* the method of the same name.  route_after is the Route argument as the  *)
(* caller finds it once the call has returned (<<>> for a call that takes  *)
(* no Route): Python passes the dictionary by reference, so what the call  *)
(* writes through it stays written.                                        *)
(*                                                                         *)
(* Numbers.  Latitudes and longitudes are whole degrees, distances are     *)
(* integers (metres).  The floats of the source are rationals kept as      *)
(* numerator and denominator; where the source truncates or compares a     *)
(* float, the IEEE-754 binary64 result is used: it differs from the exact  *)
(* one only on the argument tuples listed in PercentRoundedDown,           *)
(* StopPointRoundedDown and LeftDistanceRoundedDown.  Planar distances to  *)
(* a coordinate are kept squared (sqrt is monotone, and only their order   *)
(* is used); sector lengths are exact because polyline vertices lie on one *)
(* meridian.                                                               *)
(***************************************************************************)
EXTENDS Integers, Sequences, FiniteSets, TLC

VARIABLES op, args, result, route_after

vars == <<op, args, result, route_after>>

(***************************************************************************)
(* Bounds of the argument sets.                                            *)
(***************************************************************************)
MaxSteps == 2
MaxVertices == 3
MaxCoord == 1
MaxDistance == 7
MaxSpacing == 2
MaxOffset == 1
MaxMultiple == 2
MaxTime == 1
MaxSpeed == 1
MaxLegs == 2
MaxLegSteps == 2
MaxRawValue == 1
MaxRoutes == 2
MaxSeconds == 7320
MaxMeters == 1049

(***************************************************************************)
(* Python's None where an int is expected (an index, a duration, an        *)
(* omitted distance/time/speed argument), and float("inf").                *)
(***************************************************************************)
None == -1
Inf == -2

(***************************************************************************)
(* The polyline codec (package polyline, precision 5): the encoded form is *)
(* the sequence of deltas of the coordinates scaled by 10^5 and rounded;   *)
(* the character layer over the deltas is a bijection and is left out.     *)
(***************************************************************************)
Precision == 100000

RECURSIVE encode_from(_, _, _, _)
encode_from(coordinates, i, lat, lng) ==
    IF i > Len(coordinates) THEN <<>>
    ELSE LET nlat == coordinates[i][1] * Precision
             nlng == coordinates[i][2] * Precision
         IN  <<<<nlat - lat, nlng - lng>>>> \o encode_from(coordinates, i + 1, nlat, nlng)

encode(coordinates) == encode_from(coordinates, 1, 0, 0)

RECURSIVE decode_from(_, _, _, _)
decode_from(expression, i, lat, lng) ==
    IF i > Len(expression) THEN <<>>
    ELSE LET nlat == lat + expression[i][1]
             nlng == lng + expression[i][2]
         IN  <<<<nlat \div Precision, nlng \div Precision>>>>
                 \o decode_from(expression, i + 1, nlat, nlng)

decode(expression) == decode_from(expression, 1, 0, 0)

(***************************************************************************)
(* Helpers.                                                                *)
(***************************************************************************)
Abs(x) == IF x < 0 THEN 0 - x ELSE x

\* sqrt of a perfect square
Sqrt(n) == CHOOSE r \in 0..n : r * r = n

\* a < b on floats that are finite or inf
FloatLess(a, b) == a # Inf /\ (b = Inf \/ a < b)

\* steps[from:] of Python, from counted from 0
Slice(s, from) == IF from >= Len(s) THEN <<>> ELSE SubSeq(s, from + 1, Len(s))

(***************************************************************************)
(* __locate_coordinate: the first vertex at the smallest planar distance.  *)
(* Returns the vertex index (from 0, None for no vertex) and the squared   *)
(* distance (Inf for no vertex).                                           *)
(***************************************************************************)
PlanarDistance2(vertex, locating_coordinate) ==
    LET x_distance == locating_coordinate.lat - vertex[1]
        y_distance == locating_coordinate.lng - vertex[2]
    IN  x_distance * x_distance + y_distance * y_distance

CloserBrokenTie(distance, smallest_distance) ==
    distance = smallest_distance \/ FloatLess(distance, smallest_distance)

Closer(distance, smallest_distance) == FloatLess(distance, smallest_distance)

RECURSIVE locate_coordinate_from(_, _, _, _, _)
locate_coordinate_from(coordinates, locating_coordinate, ind, closest_ind, smallest_distance) ==
    IF ind >= Len(coordinates)
    THEN [ind |-> closest_ind, distance |-> smallest_distance]
    ELSE LET distance == PlanarDistance2(coordinates[ind + 1], locating_coordinate)
         IN  IF Closer(distance, smallest_distance)
             THEN locate_coordinate_from(coordinates, locating_coordinate, ind + 1,
                                         ind, distance)
             ELSE locate_coordinate_from(coordinates, locating_coordinate, ind + 1,
                                         closest_ind, smallest_distance)

locate_coordinate(coordinates, locating_coordinate) ==
    locate_coordinate_from(coordinates, locating_coordinate, 0, None, Inf)

(***************************************************************************)
(* __calculate_sector_lengths: the planar length of every sector and their *)
(* sum.                                                                    *)
(***************************************************************************)
SectorLength(a, b) ==
    Sqrt((a[1] - b[1]) * (a[1] - b[1]) + (a[2] - b[2]) * (a[2] - b[2]))

RECURSIVE SumSeq(_, _)
SumSeq(s, from) == IF from > Len(s) THEN 0 ELSE s[from] + SumSeq(s, from + 1)

calculate_sector_lengths(coordinates) ==
    LET sector_lengths ==
            [ind \in 1..(IF Len(coordinates) = 0 THEN 0 ELSE Len(coordinates) - 1) |->
                SectorLength(coordinates[ind], coordinates[ind + 1])]
    IN  [sector_lengths |-> sector_lengths, polyline_length |-> SumSeq(sector_lengths, 1)]

(***************************************************************************)
(* Binary64 rounding in __aproximate_stop_points.  With                    *)
(*   a   = abs(distance_between_points - (distance - step.distance)),      *)
(*   dbp = distance_between_points, sd = step.distance,                    *)
(*   pl  = polyline_length and k the number of points already emitted in   *)
(*   the step,                                                             *)
(* current_percent is a/sd with dbp/sd added k times and                   *)
(* stop_point_on_polyline is (a/sd)*pl with (dbp/sd)*pl added k times.     *)
(* Evaluated in binary64 for sd <= 9, dbp <= 4, pl <= 8, k <= 3 (and for   *)
(* dbp = 50000, sd <= 3 * dbp, pl <= 6), int(current_percent * sd) is the  *)
(* exact                                                                   *)
(* a + k*dbp except on the tuples <<sd, dbp, a, k>> of PercentRoundedDown, *)
(* where it is one less; and stop_point_on_polyline compares with an       *)
(* integer as the exact (a + k*dbp)*pl/sd does, except on the tuples       *)
(* <<sd, dbp, a, pl, k>> of StopPointRoundedDown, where it is just below   *)
(* that (integer) value.                                                   *)
(***************************************************************************)
PercentRoundedDown ==
    { <<6,1,3,3>>, <<6,1,4,2>>, <<7,1,2,3>>, <<7,1,3,2>>, <<7,1,3,3>>, <<7,1,4,1>>,
      <<7,1,4,2>>, <<7,1,4,3>>, <<7,2,1,2>>, <<7,2,1,3>>, <<7,2,3,1>>, <<7,2,3,2>>,
      <<7,3,2,1>>, <<7,4,1,1>>, <<9,1,6,1>>, <<9,3,1,2>>, <<9,3,4,1>>, <<9,4,3,1>> }

StopPointRoundedDown ==
    { <<3,1,0,7,3>>, <<3,1,1,7,2>>, <<3,1,2,7,1>>, <<3,2,1,7,1>>, <<6,1,3,1,3>>,
      <<6,1,3,2,3>>, <<6,1,3,4,3>>, <<6,1,3,5,3>>, <<6,1,3,7,3>>, <<6,1,3,8,3>>,
      <<6,1,4,1,2>>, <<6,1,4,2,2>>, <<6,1,4,4,2>>, <<6,1,4,5,2>>, <<6,1,4,7,2>>,
      <<6,1,4,8,2>>, <<6,2,0,7,3>>, <<6,2,2,7,2>>, <<6,2,4,7,1>>, <<6,4,2,7,1>>,
      <<7,1,4,1,3>>, <<7,1,4,2,3>>, <<7,1,4,3,3>>, <<7,1,4,4,3>>, <<7,1,4,6,3>>,
      <<7,1,4,8,3>>, <<7,1,5,3,2>>, <<7,1,5,6,2>>, <<7,1,6,3,1>>, <<7,1,6,6,1>>,
      <<7,2,1,1,3>>, <<7,2,1,2,3>>, <<7,2,1,4,3>>, <<7,2,1,5,3>>, <<7,2,1,8,3>>,
      <<7,2,3,1,2>>, <<7,2,3,2,2>>, <<7,2,3,4,2>>, <<7,2,3,8,2>>, <<9,1,3,3,3>>,
      <<9,1,3,6,3>>, <<9,1,4,3,2>>, <<9,1,4,6,2>>, <<9,1,6,5,3>>, <<9,1,6,7,3>>,
      <<9,1,8,7,1>>, <<9,2,3,3,3>>, <<9,2,3,6,3>>, <<9,2,3,7,3>>, <<9,3,0,7,3>>,
      <<9,3,3,7,2>>, <<9,3,6,7,1>>, <<9,4,1,7,2>> }

\* abs(distance_between_points - (distance - step["distance"])), line 288
FirstStopPointNumerator(distance, distance_between_points, step_distance) ==
    Abs(distance_between_points - (distance - step_distance))

\* int(current_percent * step["distance"]), line 304
IntPercentTimesDistance(sd, dbp, a, k) ==
    a + k * dbp - (IF <<sd, dbp, a, k>> \in PercentRoundedDown THEN 1 ELSE 0)

\* current_polyline > stop_point_on_polyline, line 301
ExceedsStopPointInclusive(current_polyline, sd, dbp, a, pl, k) ==
    current_polyline * sd >= (a + k * dbp) * pl

ExceedsStopPoint(current_polyline, sd, dbp, a, pl, k) ==
    \/ current_polyline * sd > (a + k * dbp) * pl
    \/ /\ current_polyline * sd = (a + k * dbp) * pl
       /\ <<sd, dbp, a, pl, k>> \in StopPointRoundedDown

\* new_distance = full_distance - points[-1]["distance"], line 308
NewDistanceForgotten(full_distance, point) == 0

NewDistance(full_distance, point) == full_distance - point.distance

(***************************************************************************)
(* __init_stop_point                                                       *)
(***************************************************************************)
init_stop_point(lat, lng, distance) ==
    [lat |-> lat, lng |-> lng, distance |-> distance]

(***************************************************************************)
(* __aproximate_stop_points: the points of one step and the distance left  *)
(* after the last of them.  c holds what the loop over the sectors reads.  *)
(***************************************************************************)
RECURSIVE aproximate_sectors(_, _, _, _, _, _)
aproximate_sectors(c, ind, current_polyline, k, points, new_distance) ==
    IF ind > Len(c.sector_lengths)
    THEN [points |-> points, new_distance |-> new_distance]
    ELSE LET polyline == current_polyline + c.sector_lengths[ind]
         IN  IF ExceedsStopPoint(polyline, c.sd, c.dbp, c.a, c.polyline_length, k)
             THEN LET point == init_stop_point(
                                   c.coordinates[ind][1], c.coordinates[ind][2],
                                   c.full_distance - c.sd
                                       + IntPercentTimesDistance(c.sd, c.dbp, c.a, k))
                      grown == Append(points, point)
                      left == NewDistance(c.full_distance, point)
                  IN  IF c.only_first
                      THEN [points |-> grown, new_distance |-> left]
                      ELSE aproximate_sectors(c, ind + 1, polyline, k + 1, grown, left)
             ELSE aproximate_sectors(c, ind + 1, polyline, k, points, new_distance)

\* if step["distance"] > 0 and len(coordinates) > 0, line 284
HasGeometryAnyDistance(step, coordinates) == Len(coordinates) > 0

HasGeometry(step, coordinates) == step.distance > 0 /\ Len(coordinates) > 0

\* the fallback point of lines 313-315
EndLocationPoint(step, full_distance) ==
    init_stop_point(step.end_location.lat, step.end_location.lng, full_distance)

aproximate_stop_points(step, distance, distance_between_points, full_distance, only_first) ==
    LET coordinates == decode(step.polyline)
        sectors == calculate_sector_lengths(coordinates)
        found == IF HasGeometry(step, coordinates)
                 THEN aproximate_sectors(
                          [coordinates |-> coordinates,
                           sector_lengths |-> sectors.sector_lengths,
                           polyline_length |-> sectors.polyline_length,
                           sd |-> step.distance,
                           dbp |-> distance_between_points,
                           a |-> FirstStopPointNumerator(distance, distance_between_points,
                                                         step.distance),
                           full_distance |-> full_distance,
                           only_first |-> only_first],
                          1, 0, 0, <<>>, 0)
                 ELSE [points |-> <<>>, new_distance |-> 0]
    IN  IF Len(found.points) = 0
        THEN [points |-> <<EndLocationPoint(step, full_distance)>>,
              new_distance |-> found.new_distance]
        ELSE found

(***************************************************************************)
(* __locate_stop_points: (points, full_distance, distance).                *)
(***************************************************************************)
\* if distance >= distance_between_points, line 178
ReachesSpacing(distance, distance_between_points) ==
    distance >= distance_between_points

\* if only_first: break, lines 183-184
BreakNever(only_first) == FALSE

BreakAfterStep(only_first) == only_first

RECURSIVE locate_steps(_, _, _, _, _, _, _)
locate_steps(steps, i, distance_between_points, only_first, points, full_distance, distance) ==
    IF i > Len(steps)
    THEN [points |-> points, full_distance |-> full_distance, distance |-> distance]
    ELSE LET step == steps[i]
             grown == distance + step.distance
             full == full_distance + step.distance
         IN  IF ReachesSpacing(grown, distance_between_points)
             THEN LET new == aproximate_stop_points(step, grown, distance_between_points,
                                                    full, only_first)
                  IN  IF BreakAfterStep(only_first)
                      THEN [points |-> points \o new.points, full_distance |-> full,
                            distance |-> new.new_distance]
                      ELSE locate_steps(steps, i + 1, distance_between_points, only_first,
                                        points \o new.points, full, new.new_distance)
             ELSE locate_steps(steps, i + 1, distance_between_points, only_first,
                               points, full, grown)

locate_stop_points(route, distance_between_points, traveled_distance, only_first) ==
    locate_steps(route.steps, 1, distance_between_points, only_first, <<>>, 0,
                 traveled_distance % distance_between_points)

\* get_stop_points: the points alone
get_stop_points(route, distance_between_points, traveled_distance, only_first) ==
    locate_stop_points(route, distance_between_points, traveled_distance, only_first).points

(***************************************************************************)
(* __locate_step: the index (from 0) of the first step whose nearest       *)
(* vertex is nearest to the coordinate, None when no step has a vertex.    *)
(***************************************************************************)
RECURSIVE locate_step_from(_, _, _, _, _)
locate_step_from(steps, coordinate, ind, step_ind, min_length_to_coordinate) ==
    IF ind >= Len(steps) THEN step_ind
    ELSE LET located == locate_coordinate(decode(steps[ind + 1].polyline), coordinate)
         IN  IF located.ind # None /\ Closer(located.distance, min_length_to_coordinate)
             THEN locate_step_from(steps, coordinate, ind + 1, ind, located.distance)
             ELSE locate_step_from(steps, coordinate, ind + 1, step_ind,
                                   min_length_to_coordinate)

locate_step(steps, coordinate) == locate_step_from(steps, coordinate, 0, None, Inf)

(***************************************************************************)
(* __calculate_left_step: the part of the step from the vertex nearest to  *)
(* the coordinate to the step's end, <<left_step>>, or <<>> for None.      *)
(* int(step.distance / polyline_length * distance_in_coordinate) divides   *)
(* first and multiplies after.  In binary64 it is the exact floor of       *)
(* step.distance * distance_in_coordinate / polyline_length for            *)
(* step.distance <= 9 and polyline_length <= 8, and for step.distance <= 9 *)
(* with polyline_length and distance_in_coordinate among 49, 98 and 147,   *)
(* except on the tuples <<step.distance, polyline_length,                  *)
(* distance_in_coordinate>> of LeftDistanceRoundedDown, where the quotient *)
(* is rounded down and the product falls just below the (whole) exact      *)
(* value: the result is one less.                                          *)
(***************************************************************************)
LeftDistanceRoundedDown ==
    { <<1,49,49>>, <<2,49,49>>, <<4,49,49>>, <<8,49,49>>, <<1,98,98>>, <<2,98,49>>,
      <<2,98,98>>, <<4,98,49>>, <<4,98,98>>, <<8,98,49>>, <<8,98,98>>, <<3,147,49>>,
      <<3,147,98>>, <<3,147,147>>, <<6,147,49>>, <<6,147,98>>, <<6,147,147>> }

\* the condition of line 212
HasLeftPart(step, coordinates, coordinate_ind, polyline_length) ==
    /\ coordinate_ind # None
    /\ coordinate_ind # Len(coordinates) - 1
    /\ step.distance > 0
    /\ polyline_length > 0

\* if distance_in_coordinate > 0.0, line 217
PositiveOrZero(distance_in_coordinate) == distance_in_coordinate >= 0

Positive(distance_in_coordinate) == distance_in_coordinate > 0

\* int(step["distance"] / polyline_length * distance_in_coordinate), line 228
LeftDistance(step_distance, polyline_length, distance_in_coordinate) ==
    (step_distance * distance_in_coordinate) \div polyline_length
        - (IF <<step_distance, polyline_length, distance_in_coordinate>>
                  \in LeftDistanceRoundedDown
           THEN 1 ELSE 0)

calculate_left_step(step, coordinate) ==
    LET polyline_coordinates == decode(step.polyline)
        sectors == calculate_sector_lengths(polyline_coordinates)
        coordinate_ind == locate_coordinate(polyline_coordinates, coordinate).ind
    IN  IF HasLeftPart(step, polyline_coordinates, coordinate_ind, sectors.polyline_length)
        THEN LET distance_in_coordinate == SumSeq(sectors.sector_lengths, coordinate_ind + 1)
                 last == polyline_coordinates[Len(polyline_coordinates)]
             IN  IF Positive(distance_in_coordinate)
                 THEN <<[start_location |->
                             [lat |-> polyline_coordinates[coordinate_ind + 1][1],
                              lng |-> polyline_coordinates[coordinate_ind + 1][2]],
                         end_location |-> [lat |-> last[1], lng |-> last[2]],
                         polyline |-> encode(Slice(polyline_coordinates, coordinate_ind)),
                         distance |-> LeftDistance(step.distance, sectors.polyline_length,
                                                   distance_in_coordinate),
                         duration |-> None]>>
                 ELSE <<>>
        ELSE <<>>

(***************************************************************************)
(* get_point_on_route: (<<point>> or <<>> for None, reached_route_end).    *)
(***************************************************************************)
\* lines 132-135
ProjectionDistance(distance, time, speed) ==
    IF distance = None THEN time * speed ELSE distance

\* lines 145-150: the steps after the located one, the left step first
left_route_from_located(route, step_ind, coordinate) ==
    [steps |-> calculate_left_step(route.steps[step_ind + 1], coordinate)
                   \o Slice(route.steps, step_ind)]

left_route(route, step_ind, coordinate) ==
    [steps |-> calculate_left_step(route.steps[step_ind + 1], coordinate)
                   \o Slice(route.steps, step_ind + 1)]

\* lines 159-163
RouteEndPointUnstamped(route, full_distance) ==
    [lat |-> route.end_location.lat, lng |-> route.end_location.lng, distance |-> 0]

RouteEndPoint(route, full_distance) ==
    [lat |-> route.end_location.lat, lng |-> route.end_location.lng,
     distance |-> full_distance]

get_point_on_route(route, coordinate, distance, time, speed) ==
    LET projected == ProjectionDistance(distance, time, speed)
        step_ind == locate_step(route.steps, coordinate)
    IN  IF step_ind # None
        THEN LET located == locate_stop_points(left_route(route, step_ind, coordinate),
                                               projected, 0, TRUE)
             IN  IF Len(located.points) > 0
                 THEN [point |-> <<located.points[1]>>, reached_end |-> FALSE]
                 ELSE [point |-> <<RouteEndPoint(route, located.full_distance)>>,
                       reached_end |-> TRUE]
        ELSE [point |-> <<>>, reached_end |-> FALSE]

(***************************************************************************)
(* The lists get_point_on_route holds while it builds left_route, lines    *)
(* 145-150: route_steps is the list object route["steps"] refers to,       *)
(* left_steps the one left_route["steps"] refers to.                       *)
(***************************************************************************)
\* route["steps"][step_ind + 1:], line 146: the slice is a new list
sliced(steps, step_ind) ==
    [route_steps |-> steps, left_steps |-> Slice(steps, step_ind + 1)]

\* left_route["steps"].insert(0, left_step_in_current_step), lines 149-150
inserted_through_alias(lists, left_step) ==
    [route_steps |-> left_step \o lists.route_steps,
     left_steps |-> left_step \o lists.left_steps]

inserted(lists, left_step) ==
    [route_steps |-> lists.route_steps, left_steps |-> left_step \o lists.left_steps]

\* the Route argument after get_point_on_route: nothing else of it is written
route_after_get_point_on_route(route, coordinate) ==
    LET step_ind == locate_step(route.steps, coordinate)
    IN  IF step_ind # None
        THEN LET lists == inserted(sliced(route.steps, step_ind),
                                   calculate_left_step(route.steps[step_ind + 1],
                                                       coordinate))
             IN  [route EXCEPT !.steps = lists.route_steps]
        ELSE route

\* __locate_stop_points and __aproximate_stop_points only read route and
\* step; points and new_points are lists of their own, lines 170-186
route_after_locate_stop_points(route) == route

(***************************************************************************)
(* __convert_seconds_to_duration_text and __convert_meters_to_distance_text*)
(***************************************************************************)
METERS_IN_KILOMETERS == 1000
SECONDS_IN_HOUR == 3600
SECONDS_IN_MINUTE == 60

\* the plural "s" from a quantity of one on
convert_seconds_plural_from_one(seconds) ==
    LET hours == seconds \div SECONDS_IN_HOUR
        minutes == (seconds % SECONDS_IN_HOUR) \div SECONDS_IN_MINUTE
        hours_text == IF hours > 0
                      THEN ToString(hours) \o " hour"
                               \o (IF hours >= 1 THEN "s" ELSE "")
                               \o (IF minutes > 0 THEN " " ELSE "")
                      ELSE ""
        minutes_text == IF minutes > 0
                        THEN ToString(minutes) \o " min" \o (IF minutes >= 1 THEN "s" ELSE "")
                        ELSE ""
    IN  IF hours = 0 /\ minutes = 0 THEN "0 mins" ELSE hours_text \o minutes_text

convert_seconds_to_duration_text(seconds) ==
    LET hours == seconds \div SECONDS_IN_HOUR
        minutes == (seconds % SECONDS_IN_HOUR) \div SECONDS_IN_MINUTE
        hours_text == IF hours > 0
                      THEN ToString(hours) \o " hour"
                               \o (IF hours > 1 THEN "s" ELSE "")
                               \o (IF minutes > 0 THEN " " ELSE "")
                      ELSE ""
        minutes_text == IF minutes > 0
                        THEN ToString(minutes) \o " min" \o (IF minutes > 1 THEN "s" ELSE "")
                        ELSE ""
    IN  IF hours = 0 /\ minutes = 0 THEN "0 mins" ELSE hours_text \o minutes_text

\* "{:.1f}".format(meters / 1000): the nearest tenth of a kilometre.  A total
\* with meters % 100 = 50 lies half way between two tenths and is rounded by
\* the binary64 value of meters / 1000; the operator is not used on such totals.
OneDecimal(meters) ==
    LET tenths == (meters + 50) \div 100
    IN  ToString(tenths \div 10) \o "." \o ToString(tenths % 10)

convert_meters_to_distance_text(meters) ==
    IF meters >= 99
    THEN LET kilometers == meters \div METERS_IN_KILOMETERS
         IN  IF kilometers < 100
             THEN OneDecimal(meters) \o " km"
             ELSE ToString(kilometers) \o " km"
    ELSE ToString(meters) \o " m"

(***************************************************************************)
(* __parse_route, get_routes, get_duration_and_distance.  A call either    *)
(* returns a value or raises: [raised |-> the exception or "", value |->   *)
(* <<the value>>, or <<>> for None or after a raise].                      *)
(***************************************************************************)
Returned(value) == [raised |-> "", value |-> <<value>>]
ReturnedNone == [raised |-> "", value |-> <<>>]
Raised(exception) == [raised |-> exception, value |-> <<>>]

RECURSIVE SumLegs(_, _, _)
SumLegs(legs, field, from) ==
    IF from > Len(legs) THEN 0 ELSE legs[from][field].value + SumLegs(legs, field, from + 1)

\* lines 340-349: one step of the route from one raw step
parse_step(raw_step) ==
    [start_location |-> raw_step.start_location,
     end_location |-> raw_step.end_location,
     distance |-> raw_step.distance.value,
     duration |-> raw_step.duration.value,
     polyline |-> raw_step.polyline.points]

RECURSIVE FlattenSteps(_, _)
FlattenSteps(legs, from) ==
    IF from > Len(legs) THEN <<>>
    ELSE [i \in 1..Len(legs[from].steps) |-> parse_step(legs[from].steps[i])]
             \o FlattenSteps(legs, from + 1)

\* lines 331-338: the totals are the sums of the legs' own values
RouteTotalOfSteps(raw_route, field) ==
    LET steps == FlattenSteps(raw_route.legs, 1)
    IN  SumSeq([i \in 1..Len(steps) |-> steps[i][field]], 1)

RouteTotal(raw_route, field) == SumLegs(raw_route.legs, field, 1)

\* raw_route["legs"][0] and raw_route["legs"][-1], lines 325-329
NoFirstLeg(raw_route) == Len(raw_route.legs) = 0

parse_route(raw_route) ==
    IF NoFirstLeg(raw_route) THEN Raised("IndexError")
    ELSE LET legs == raw_route.legs
             distance == RouteTotal(raw_route, "distance")
             duration == RouteTotal(raw_route, "duration")
         IN  Returned(
                 [bounds |-> raw_route.bounds,
                  start_address |-> legs[1].start_address,
                  start_location |-> legs[1].start_location,
                  end_address |-> legs[Len(legs)].end_address,
                  end_location |-> legs[Len(legs)].end_location,
                  distance |-> distance,
                  duration |-> duration,
                  steps |-> FlattenSteps(legs, 1),
                  distance_text |-> convert_meters_to_distance_text(distance),
                  duration_text |-> convert_seconds_to_duration_text(duration),
                  polyline |-> raw_route.overview_polyline.points,
                  summary |-> raw_route.summary,
                  warnings |-> raw_route.warnings,
                  waypoint_order |-> raw_route.waypoint_order])

\* routes = [self.__parse_route(raw_route) for raw_route in raw_routes], line 50
RECURSIVE parse_routes(_, _, _)
parse_routes(raw_routes, from, routes) ==
    IF from > Len(raw_routes) THEN Returned(routes)
    ELSE LET parsed == parse_route(raw_routes[from])
         IN  IF parsed.raised # "" THEN Raised(parsed.raised)
             ELSE parse_routes(raw_routes, from + 1, Append(routes, parsed.value[1]))

\* what self.__gmaps.directions returned is the argument
get_routes(raw_routes) == parse_routes(raw_routes, 1, <<>>)

get_duration_and_distance(raw_routes) ==
    IF Len(raw_routes) > 0
    THEN IF Len(raw_routes[1].legs) = 0 THEN Raised("IndexError")
         ELSE LET leg == raw_routes[1].legs[1]
              IN  Returned([distance |-> leg.distance.value,
                            distance_text |-> leg.distance.text,
                            duration |-> leg.duration.value,
                            duration_text |-> leg.duration.text])
    ELSE ReturnedNone

(***************************************************************************)
(* Argument sets.  A polyline's vertices lie on the meridian lng = 0; a    *)
(* step starts at its first vertex and ends at its last one (at Origin     *)
(* when it has no vertex); the located coordinate may lie off the meridian.*)
(***************************************************************************)
Origin == [lat |-> 0, lng |-> 0]

Vertices == {<<x, 0>> : x \in 0..MaxCoord}

Polylines == UNION {[1..n -> Vertices] : n \in 0..MaxVertices}

Location(vertex) == [lat |-> vertex[1], lng |-> vertex[2]]

MakeStep(distance, coordinates) ==
    [start_location |-> IF coordinates = <<>> THEN Origin ELSE Location(coordinates[1]),
     end_location |-> IF coordinates = <<>> THEN Origin
                      ELSE Location(coordinates[Len(coordinates)]),
     polyline |-> encode(coordinates),
     distance |-> distance,
     duration |-> 0]

Steps == {MakeStep(d, p) : d \in 0..MaxDistance, p \in Polylines}

StepLists == UNION {[1..n -> Steps] : n \in 0..MaxSteps}

Coordinates == {[lat |-> x, lng |-> y] : x \in 0..MaxCoord, y \in 0..1}

\* steps whose polyline runs 49 degrees up or down the meridian per sector
FarVertices == {<<0, 0>>, <<49, 0>>}

FarSteps ==
    {MakeStep(d, p) : d \in 0..MaxDistance,
                      p \in UNION {[1..n -> FarVertices] : n \in 0..MaxVertices}}

\* the route's own end: its last step's end, or a place no step ends at
FarEnd == [lat |-> MaxCoord + 1, lng |-> 0]

Routes == {[steps |-> s, end_location |-> FarEnd] : s \in StepLists}

\* steps as long as multiples of the default spacing
DEFAULT_DISTANCE_BETWEEN_POINTS == 50000

LongSteps ==
    {MakeStep(m * DEFAULT_DISTANCE_BETWEEN_POINTS, p) : m \in 0..MaxMultiple, p \in Polylines}

LongRoutes ==
    {[steps |-> s, end_location |-> FarEnd] :
        s \in UNION {[1..n -> LongSteps] : n \in 0..MaxSteps}}

\* raw directions responses; what the builder copies verbatim is fixed
RawSteps ==
    {[start_location |-> Origin, end_location |-> FarEnd,
      distance |-> [value |-> d], duration |-> [value |-> t],
      polyline |-> [points |-> encode(<<<<0, 0>>, <<MaxCoord + 1, 0>>>>)]] :
        d \in 0..MaxRawValue, t \in 0..MaxRawValue}

RawLegs(max_steps) ==
    {[start_address |-> "start", end_address |-> "end",
      start_location |-> Origin, end_location |-> FarEnd,
      distance |-> [value |-> d, text |-> "distance"],
      duration |-> [value |-> t, text |-> "duration"],
      steps |-> s] :
        d \in 0..(MaxLegSteps * MaxRawValue), t \in 0..(MaxLegSteps * MaxRawValue),
        s \in UNION {[1..n -> RawSteps] : n \in 0..max_steps}}

RawRoutes(max_legs, max_steps) ==
    {[bounds |-> [northeast |-> FarEnd, southwest |-> Origin],
      legs |-> l,
      overview_polyline |-> [points |-> encode(<<<<0, 0>>, <<MaxCoord + 1, 0>>>>)],
      summary |-> "summary", warnings |-> <<>>, waypoint_order |-> <<>>] :
        l \in UNION {[1..n -> RawLegs(max_steps)] : n \in 0..max_legs}}

RawRoutesForParse == RawRoutes(MaxLegs, MaxLegSteps)

RawResponses == UNION {[1..n -> RawRoutes(1, 1)] : n \in 0..MaxRoutes}

(***************************************************************************)
(* The calls.                                                              *)
(***************************************************************************)
Init ==
    /\ op = "idle"
    /\ args = <<>>
    /\ result = <<>>
    /\ route_after = <<>>

\* the caller takes the result; the engine keeps nothing across calls
Return ==
    /\ op # "idle"
    /\ op' = "idle"
    /\ args' = <<>>
    /\ result' = <<>>
    /\ route_after' = <<>>

LocateStopPoints ==
    /\ op = "idle"
    /\ \E route \in Routes, distance_between_points \in 1..MaxSpacing,
          traveled_distance \in 0..MaxOffset, only_first \in BOOLEAN :
        /\ op' = "locate_stop_points"
        /\ args' = [route |-> route, distance_between_points |-> distance_between_points,
                    traveled_distance |-> traveled_distance, only_first |-> only_first]
        /\ result' = locate_stop_points(route, distance_between_points,
                                        traveled_distance, only_first)
        /\ route_after' = route_after_locate_stop_points(route)

\* with distance_between_points and traveled_distance left at their defaults
LocateStopPointsDefault ==
    /\ op = "idle"
    /\ \E route \in LongRoutes, only_first \in BOOLEAN :
        /\ op' = "locate_stop_points"
        /\ args' = [route |-> route,
                    distance_between_points |-> DEFAULT_DISTANCE_BETWEEN_POINTS,
                    traveled_distance |-> 0, only_first |-> only_first]
        /\ result' = locate_stop_points(route, DEFAULT_DISTANCE_BETWEEN_POINTS, 0,
                                        only_first)
        /\ route_after' = route_after_locate_stop_points(route)

GetPointOnRoute ==
    /\ op = "idle"
    /\ \E route \in Routes, coordinate \in Coordinates, distance \in 1..MaxSpacing :
        /\ op' = "get_point_on_route"
        /\ args' = [route |-> route, coordinate |-> coordinate, distance |-> distance,
                    time |-> None, speed |-> None]
        /\ result' = get_point_on_route(route, coordinate, distance, None, None)
        /\ route_after' = route_after_get_point_on_route(route, coordinate)

GetPointOnRouteInTime ==
    /\ op = "idle"
    /\ \E route \in Routes, coordinate \in Coordinates,
          time \in 1..MaxTime, speed \in 1..MaxSpeed :
        /\ op' = "get_point_on_route"
        /\ args' = [route |-> route, coordinate |-> coordinate, distance |-> None,
                    time |-> time, speed |-> speed]
        /\ result' = get_point_on_route(route, coordinate, None, time, speed)
        /\ route_after' = route_after_get_point_on_route(route, coordinate)

LocateStep ==
    /\ op = "idle"
    /\ \E steps \in StepLists, coordinate \in Coordinates :
        /\ op' = "locate_step"
        /\ args' = [steps |-> steps, coordinate |-> coordinate]
        /\ result' = locate_step(steps, coordinate)
        /\ route_after' = <<>>

CalculateLeftStep ==
    /\ op = "idle"
    /\ \E step \in Steps, coordinate \in Coordinates :
        /\ op' = "calculate_left_step"
        /\ args' = [step |-> step, coordinate |-> coordinate]
        /\ result' = calculate_left_step(step, coordinate)
        /\ route_after' = <<>>

\* the coordinate at a vertex of a step of long sectors
CalculateLeftStepFar ==
    /\ op = "idle"
    /\ \E step \in FarSteps, vertex \in FarVertices :
        /\ op' = "calculate_left_step"
        /\ args' = [step |-> step, coordinate |-> Location(vertex)]
        /\ result' = calculate_left_step(step, Location(vertex))
        /\ route_after' = <<>>

ParseRoute ==
    /\ op = "idle"
    /\ \E raw_route \in RawRoutesForParse :
        /\ op' = "parse_route"
        /\ args' = [raw_route |-> raw_route]
        /\ result' = parse_route(raw_route)
        /\ route_after' = <<>>

GetRoutes ==
    /\ op = "idle"
    /\ \E raw_routes \in RawResponses :
        /\ op' = "get_routes"
        /\ args' = [raw_routes |-> raw_routes]
        /\ result' = get_routes(raw_routes)
        /\ route_after' = <<>>

GetDurationAndDistance ==
    /\ op = "idle"
    /\ \E raw_routes \in RawResponses :
        /\ op' = "get_duration_and_distance"
        /\ args' = [raw_routes |-> raw_routes]
        /\ result' = get_duration_and_distance(raw_routes)
        /\ route_after' = <<>>

ConvertSecondsToDurationText ==
    /\ op = "idle"
    /\ \E seconds \in 0..MaxSeconds :
        /\ op' = "convert_seconds_to_duration_text"
        /\ args' = [seconds |-> seconds]
        /\ result' = convert_seconds_to_duration_text(seconds)
        /\ route_after' = <<>>

\* totals half way between two tenths of a kilometre are left out (OneDecimal)
ConvertMetersToDistanceText ==
    /\ op = "idle"
    /\ \E meters \in {m \in 0..MaxMeters : m % 100 # 50} :
        /\ op' = "convert_meters_to_distance_text"
        /\ args' = [meters |-> meters]
        /\ result' = convert_meters_to_distance_text(meters)
        /\ route_after' = <<>>

\* stop-point extraction
NextStops == LocateStopPoints \/ LocateStopPointsDefault \/ Return

SpecStops == Init /\ [][NextStops]_vars

\* location, partial step and projection
NextPoint ==
    \/ GetPointOnRoute
    \/ GetPointOnRouteInTime
    \/ LocateStep
    \/ CalculateLeftStep
    \/ CalculateLeftStepFar
    \/ Return

SpecPoint == Init /\ [][NextPoint]_vars

\* the route model builder
NextBuild == ParseRoute \/ GetRoutes \/ GetDurationAndDistance \/ Return

SpecBuild == Init /\ [][NextBuild]_vars

\* the human-readable texts
NextText == ConvertSecondsToDurationText \/ ConvertMetersToDistanceText \/ Return

SpecText == Init /\ [][NextText]_vars

\* the geometry engine
NextEngine == NextStops \/ NextPoint

SpecEngine == Init /\ [][NextEngine]_vars

\* every operation
Next == NextStops \/ NextPoint \/ NextBuild \/ NextText

Spec == Init /\ [][Next]_vars

(***************************************************************************)
(* What the properties below read of the call the state holds.             *)
(***************************************************************************)
Called(operation) == op = operation

TotalDistance(steps) == SumSeq([i \in 1..Len(steps) |-> steps[i].distance], 1)

\* the projection distance, the located step and the reduced route of a
\* get_point_on_route call
Projected == ProjectionDistance(args.distance, args.time, args.speed)

Located == locate_step(args.route.steps, args.coordinate)

Reduced == left_route(args.route, Located, args.coordinate).steps

StrictlyIncreasing(points) ==
    \A i \in 1..(Len(points) - 1) : points[i].distance < points[i + 1].distance

(***************************************************************************)
(* C1.  A projection distance strictly larger than the total distance of   *)
(* the reduced route (the left step of the located step, if any, and the   *)
(* steps after it) returns reached_end = true and the route's end_location *)
(* stamped with that total distance.                                       *)
(***************************************************************************)
C1_PastTheEnd ==
    (/\ Called("get_point_on_route")
     /\ Located # None
     /\ Projected > TotalDistance(Reduced))
        => /\ result.reached_end = TRUE
           /\ result.point = <<[lat |-> args.route.end_location.lat,
                                lng |-> args.route.end_location.lng,
                                distance |-> TotalDistance(Reduced)]>>

\* a left step of positive distance heads a reduced route shorter than the projection
C1_Witness ==
    /\ Called("get_point_on_route")
    /\ Located # None
    /\ calculate_left_step(args.route.steps[Located + 1], args.coordinate) # <<>>
    /\ TotalDistance(Reduced) > 0
    /\ Projected > TotalDistance(Reduced)
    /\ result.reached_end = TRUE

(***************************************************************************)
(* C2.  A projection distance equal to the total distance of the reduced   *)
(* route returns reached_end = true, as a larger one does.                 *)
(***************************************************************************)
C2_ExactlyToTheEnd ==
    (/\ Called("get_point_on_route")
     /\ Located # None
     /\ Projected = TotalDistance(Reduced))
        => result.reached_end = TRUE

AllPoints ==
    locate_stop_points(args.route, args.distance_between_points,
                       args.traveled_distance, FALSE).points

C4_FirstOfAll ==
    (Called("locate_stop_points") /\ args.only_first)
        => /\ Len(result.points) <= 1
           /\ Len(result.points) = 0 <=> Len(AllPoints) = 0
           /\ Len(result.points) = 1 => result.points[1] = AllPoints[1]

\* several points lie on the route and the first alone is returned
C4_Witness ==
    /\ Called("locate_stop_points")
    /\ args.only_first
    /\ Len(AllPoints) >= 3
    /\ Len(args.route.steps) = 2
    /\ result.points = <<AllPoints[1]>>

(***************************************************************************)
(* C5.  One step of distance 100000 with a polyline of two (distinct)      *)
(* vertices, spacing 50000, offset 0: as claimed, one point at 50000, a    *)
(* total of 100000 and a remainder of 0; as the code has it, a remainder   *)
(* of 50000, the point being the polyline's first vertex.                  *)
(***************************************************************************)
C5_Scenario ==
    /\ Called("locate_stop_points")
    /\ ~args.only_first
    /\ args.distance_between_points = 50000
    /\ args.traveled_distance = 0
    /\ Len(args.route.steps) = 1
    /\ args.route.steps[1].distance = 100000
    /\ Len(decode(args.route.steps[1].polyline)) = 2
    /\ decode(args.route.steps[1].polyline)[1] # decode(args.route.steps[1].polyline)[2]

C5_RemainderZero ==
    C5_Scenario
        => /\ Len(result.points) = 1
           /\ result.points[1].distance = 50000
           /\ result.full_distance = 100000
           /\ result.distance = 0

C5_RemainderHalf ==
    C5_Scenario
        => /\ Len(result.points) = 1
           /\ result.points[1].distance = 50000
           /\ result.points[1].lat = args.route.steps[1].start_location.lat
           /\ result.points[1].lng = args.route.steps[1].start_location.lng
           /\ result.full_distance = 100000
           /\ result.distance = 50000

C5_Witness == C5_Scenario /\ result.distance = 50000

(***************************************************************************)
(* C6.  As claimed, every route the builder returns has distance and       *)
(* duration equal to the sums over its steps, whatever the legs' own       *)
(* values are.  As the code has it, they are the sums of the legs' own     *)
(* values, and so the sums over the steps when every leg's values are the  *)
(* sums over that leg's steps.                                             *)
(***************************************************************************)
Built == result.value[1]

StepsTotal(steps, field) == SumSeq([i \in 1..Len(steps) |-> steps[i][field]], 1)

RawStepsTotal(leg, field) ==
    SumSeq([i \in 1..Len(leg.steps) |-> leg.steps[i][field].value], 1)

LegsConsistent(legs) ==
    \A l \in 1..Len(legs) :
        /\ legs[l].distance.value = RawStepsTotal(legs[l], "distance")
        /\ legs[l].duration.value = RawStepsTotal(legs[l], "duration")

C6_SumOfSteps ==
    (Called("parse_route") /\ result.raised = "")
        => /\ Built.distance = StepsTotal(Built.steps, "distance")
           /\ Built.duration = StepsTotal(Built.steps, "duration")

C6_SumOfLegs ==
    (Called("parse_route") /\ result.raised = "")
        => LET legs == args.raw_route.legs
           IN  /\ Built.distance
                      = SumSeq([l \in 1..Len(legs) |-> legs[l].distance.value], 1)
               /\ Built.duration
                      = SumSeq([l \in 1..Len(legs) |-> legs[l].duration.value], 1)
               /\ LegsConsistent(legs)
                      => /\ Built.distance = StepsTotal(Built.steps, "distance")
                         /\ Built.duration = StepsTotal(Built.steps, "duration")

\* two legs whose own values are not the sums over their steps
C6_Witness ==
    /\ Called("parse_route")
    /\ result.raised = ""
    /\ Len(args.raw_route.legs) = 2
    /\ Len(Built.steps) >= 2
    /\ Built.distance > StepsTotal(Built.steps, "distance")
    /\ Built.duration < StepsTotal(Built.steps, "duration")

(***************************************************************************)
(* C7.  No empty upstream result raises: with no route get_routes returns  *)
(* the empty list and get_duration_and_distance None, and a raw route with *)
(* no leg gives an empty or absent result.                                 *)
(***************************************************************************)
C7_EmptyNeverRaises ==
    /\ (Called("get_routes") /\ args.raw_routes = <<>>) => result = Returned(<<>>)
    /\ (Called("get_duration_and_distance") /\ args.raw_routes = <<>>)
           => result = ReturnedNone
    /\ (Called("parse_route") /\ args.raw_route.legs = <<>>) => result.raised = ""
    /\ (/\ Called("get_routes") \/ Called("get_duration_and_distance")
        /\ \E r \in 1..Len(args.raw_routes) : args.raw_routes[r].legs = <<>>)
           => result.raised = ""

(***************************************************************************)
(* C8.  locate_step returns the smallest index of a step whose nearest     *)
(* vertex is at the smallest planar distance from the coordinate over all  *)
(* vertices of all steps, and None when no step has a vertex;              *)
(* get_point_on_route then returns (None, False).                          *)
(***************************************************************************)
VerticesOf(step) == decode(step.polyline)

\* no vertex of the steps is nearer to the coordinate than vertex v of step i
Nearest(steps, i, v, coordinate) ==
    \A j \in 1..Len(steps) : \A w \in 1..Len(VerticesOf(steps[j])) :
        PlanarDistance2(VerticesOf(steps[i])[v], coordinate)
            <= PlanarDistance2(VerticesOf(steps[j])[w], coordinate)

HoldsNearest(steps, i, coordinate) ==
    \E v \in 1..Len(VerticesOf(steps[i])) : Nearest(steps, i, v, coordinate)

C8_NearestStep ==
    /\ Called("locate_step")
           => IF \A i \in 1..Len(args.steps) : VerticesOf(args.steps[i]) = <<>>
              THEN result = None
              ELSE /\ result \in 0..(Len(args.steps) - 1)
                   /\ HoldsNearest(args.steps, result + 1, args.coordinate)
                   /\ \A i \in 1..result : ~HoldsNearest(args.steps, i, args.coordinate)
    /\ (/\ Called("get_point_on_route")
        /\ \A i \in 1..Len(args.route.steps) : VerticesOf(args.route.steps[i]) = <<>>)
           => result = [point |-> <<>>, reached_end |-> FALSE]

\* two steps hold a nearest vertex and the earlier one is returned
C8_Witness ==
    /\ Called("locate_step")
    /\ Len(args.steps) = 2
    /\ HoldsNearest(args.steps, 1, args.coordinate)
    /\ HoldsNearest(args.steps, 2, args.coordinate)
    /\ result = 0

(***************************************************************************)
(* C9.  As claimed, calculate_left_step on a step with vertices returns    *)
(* None exactly when the nearest vertex is the last one, the step's        *)
(* distance is zero or the polyline's length is zero.  As the code has it, *)
(* also when the polyline has no length left from the nearest vertex (the  *)
(* first one at the smallest distance) on; and None on a step without      *)
(* vertices.                                                               *)
(***************************************************************************)
\* the index, from 1, of the first vertex at the smallest distance
NearestVertex(coordinates, coordinate) ==
    CHOOSE v \in 1..Len(coordinates) :
        /\ \A w \in 1..Len(coordinates) :
               PlanarDistance2(coordinates[v], coordinate)
                   <= PlanarDistance2(coordinates[w], coordinate)
        /\ \A w \in 1..(v - 1) :
               PlanarDistance2(coordinates[w], coordinate)
                   > PlanarDistance2(coordinates[v], coordinate)

\* the length of the polyline from vertex `from` on (vertices on one meridian)
PolylineLength(coordinates, from) ==
    SumSeq([i \in 1..(Len(coordinates) - 1) |->
                Abs(coordinates[i][1] - coordinates[i + 1][1])], from)

NothingLeftAsClaimed(step, coordinate) ==
    LET coordinates == VerticesOf(step)
    IN  \/ NearestVertex(coordinates, coordinate) = Len(coordinates)
        \/ step.distance = 0
        \/ PolylineLength(coordinates, 1) = 0

C9_NoneExactlyWhen ==
    (Called("calculate_left_step") /\ VerticesOf(args.step) # <<>>)
        => (result = <<>> <=> NothingLeftAsClaimed(args.step, args.coordinate))

C9_NoneAlsoWhenNoLengthLeft ==
    Called("calculate_left_step")
        => (result = <<>>
                <=> \/ VerticesOf(args.step) = <<>>
                    \/ NothingLeftAsClaimed(args.step, args.coordinate)
                    \/ PolylineLength(VerticesOf(args.step),
                                      NearestVertex(VerticesOf(args.step),
                                                    args.coordinate)) = 0)

\* the nearest vertex is repeated up to the end: not the last, and nothing left
C9_Witness ==
    /\ Called("calculate_left_step")
    /\ VerticesOf(args.step) # <<>>
    /\ ~NothingLeftAsClaimed(args.step, args.coordinate)
    /\ result = <<>>

(***************************************************************************)
(* C10.  get_point_on_route with the coordinate of the end vertex of step  *)
(* i: as claimed, for every polyline, no left step and a reduced route of  *)
(* exactly the steps after step i.  As the code has it, when that          *)
(* coordinate is no vertex of an earlier step and no earlier vertex of     *)
(* step i.                                                                 *)
(***************************************************************************)
\* the coordinate is the last vertex of step i (from 1) and of no step before it
EndsAt(steps, i, coordinate) ==
    LET ends(j) == /\ VerticesOf(steps[j]) # <<>>
                   /\ Location(VerticesOf(steps[j])[Len(VerticesOf(steps[j]))]) = coordinate
    IN  ends(i) /\ \A j \in 1..(i - 1) : ~ends(j)

\* the coordinate is no vertex of a step before i and no vertex but the last of step i
FirstSeenAtEndOf(steps, i, coordinate) ==
    /\ \A j \in 1..(i - 1) : \A w \in 1..Len(VerticesOf(steps[j])) :
           Location(VerticesOf(steps[j])[w]) # coordinate
    /\ \A w \in 1..(Len(VerticesOf(steps[i])) - 1) :
           Location(VerticesOf(steps[i])[w]) # coordinate

StartsAfter(i) ==
    /\ calculate_left_step(args.route.steps[Located + 1], args.coordinate) = <<>>
    /\ Reduced = Slice(args.route.steps, i)

C10_AtEndVertex ==
    Called("get_point_on_route")
        => \A i \in 1..Len(args.route.steps) :
               EndsAt(args.route.steps, i, args.coordinate) => StartsAfter(i)

C10_AtEndVertexSeenFirst ==
    Called("get_point_on_route")
        => \A i \in 1..Len(args.route.steps) :
               (/\ EndsAt(args.route.steps, i, args.coordinate)
                /\ FirstSeenAtEndOf(args.route.steps, i, args.coordinate))
                   => /\ Located = i - 1
                      /\ StartsAfter(i)

\* the first step ends where the second starts, and the second is all that is left
C10_Witness ==
    /\ Called("get_point_on_route")
    /\ Len(args.route.steps) = 2
    /\ EndsAt(args.route.steps, 1, args.coordinate)
    /\ FirstSeenAtEndOf(args.route.steps, 1, args.coordinate)
    /\ Len(VerticesOf(args.route.steps[1])) = 3
    /\ args.route.steps[1].distance > 0
    /\ VerticesOf(args.route.steps[2]) # <<>>
    /\ Location(VerticesOf(args.route.steps[2])[1]) = args.coordinate
    /\ Reduced = <<args.route.steps[2]>>

(***************************************************************************)
(* C11.  No engine operation mutates its Route argument: after a call of   *)
(* get_stop_points (the points of locate_stop_points) or of                *)
(* get_point_on_route, also one that inserts a partial step at the head of *)
(* the reduced route, the route the caller passed has the steps it had, in *)
(* the same order and with the same contents, and its other fields are     *)
(* unchanged.                                                              *)
(***************************************************************************)
C11_RouteNotMutated ==
    (Called("locate_stop_points") \/ Called("get_point_on_route"))
        => /\ Len(route_after.steps) = Len(args.route.steps)
           /\ \A i \in 1..Len(args.route.steps) : route_after.steps[i] = args.route.steps[i]
           /\ route_after = args.route

\* a partial step was inserted before a later step of the route
C11_Witness ==
    /\ Called("get_point_on_route")
    /\ Located # None
    /\ calculate_left_step(args.route.steps[Located + 1], args.coordinate) # <<>>
    /\ Len(Reduced) = 2
    /\ Reduced[1] # args.route.steps[1]
    /\ route_after = args.route

(***************************************************************************)
(* C12.  A step with zero authoritative distance or an empty polyline      *)
(* never contributes a stop point: no point of the list locate_stop_points *)
(* returns was emitted while that step was processed, and the list is made *)
(* of the points of the other steps.                                       *)
(***************************************************************************)
Degenerate(step) == step.distance = 0 \/ Len(decode(step.polyline)) = 0

\* the counters of the call when its loop comes to step i
CountersBefore(i) ==
    locate_steps(SubSeq(args.route.steps, 1, i - 1), 1, args.distance_between_points,
                 args.only_first, <<>>, 0,
                 args.traveled_distance % args.distance_between_points)

\* the loop has come to step i: only_first has not ended it at an earlier step
Processed(i) == ~(args.only_first /\ Len(CountersBefore(i).points) > 0)

\* the points appended while step i is processed
EmittedBy(i) ==
    LET step == args.route.steps[i]
        distance == CountersBefore(i).distance + step.distance
        full_distance == CountersBefore(i).full_distance + step.distance
    IN  IF Processed(i) /\ distance >= args.distance_between_points
        THEN aproximate_stop_points(step, distance, args.distance_between_points,
                                    full_distance, args.only_first).points
        ELSE <<>>

RECURSIVE EmittedByOthers(_)
EmittedByOthers(i) ==
    IF i > Len(args.route.steps) THEN <<>>
    ELSE (IF Degenerate(args.route.steps[i]) THEN <<>> ELSE EmittedBy(i))
             \o EmittedByOthers(i + 1)

C12_DegenerateStepSkipped ==
    Called("locate_stop_points")
        => /\ \A i \in 1..Len(args.route.steps) :
                  Degenerate(args.route.steps[i]) => EmittedBy(i) = <<>>
           /\ result.points = EmittedByOthers(1)

(***************************************************************************)
(* C13.  With hours = seconds div 3600 and minutes = (seconds mod 3600)    *)
(* div 60, convert_seconds_to_duration_text returns "0 mins" when both are *)
(* 0; otherwise the hours part when hours > 0 and the minutes part when    *)
(* minutes > 0, one space between them when both are there, each part with *)
(* the plural "s" exactly when its quantity is greater than 1; 3600 gives  *)
(* "1 hour", 5400 "1 hour 30 mins", 7200 "2 hours".                        *)
(***************************************************************************)
DurationPart(quantity, unit) ==
    ToString(quantity) \o " " \o unit \o (IF quantity > 1 THEN "s" ELSE "")

DurationTextAsClaimed(seconds) ==
    LET hours == seconds \div 3600
        minutes == (seconds % 3600) \div 60
    IN  CASE hours = 0 /\ minutes = 0 -> "0 mins"
          [] hours > 0 /\ minutes = 0 -> DurationPart(hours, "hour")
          [] hours = 0 /\ minutes > 0 -> DurationPart(minutes, "min")
          [] hours > 0 /\ minutes > 0 ->
                 DurationPart(hours, "hour") \o " " \o DurationPart(minutes, "min")

C13_DurationText ==
    Called("convert_seconds_to_duration_text")
        => /\ result = DurationTextAsClaimed(args.seconds)
           /\ args.seconds = 0 => result = "0 mins"
           /\ args.seconds = 3600 => result = "1 hour"
           /\ args.seconds = 5400 => result = "1 hour 30 mins"
           /\ args.seconds = 7200 => result = "2 hours"

\* one hour and one minute: both parts, both singular
C13_Witness ==
    /\ Called("convert_seconds_to_duration_text")
    /\ args.seconds = 3660
    /\ result = "1 hour 1 min"

(***************************************************************************)
(* C14.  Within a step, each stop point computed from the polyline (not    *)
(* the end-location fallback) is placed at the first vertex whose          *)
(* cumulative preceding sector length (the sum of the sector lengths       *)
(* before that vertex) strictly exceeds the target fraction *              *)
(* polyline_length; its recorded distance is full_distance - step.distance *)
(* + floor(fraction * step.distance).                                      *)
(*                                                                         *)
(* The fraction of point k (from 0) of a step is (a + k * spacing) /       *)
(* step.distance, with a = abs(spacing - distance carried into the step).  *)
(***************************************************************************)
\* what the placement of the points of step i of the call depends on
Placement(i) ==
    LET step == args.route.steps[i]
        coordinates == VerticesOf(step)
    IN  [coordinates |-> coordinates,
         sd |-> step.distance,
         dbp |-> args.distance_between_points,
         a |-> Abs(args.distance_between_points - CountersBefore(i).distance),
         pl |-> PolylineLength(coordinates, 1),
         base |-> CountersBefore(i).full_distance]

\* the sum of the sector lengths before vertex v (from 1)
Preceding(p, v) == p.pl - PolylineLength(p.coordinates, v)

\* a length strictly exceeds the target of point k, as the binary64
\* comparison of the length with fraction * polyline_length decides it
Beyond(p, length, k) ==
    \/ length * p.sd > (p.a + k * p.dbp) * p.pl
    \/ /\ length * p.sd = (p.a + k * p.dbp) * p.pl
       /\ <<p.sd, p.dbp, p.a, p.pl, k>> \in StopPointRoundedDown

\* step i of the call computes points from its polyline
FromPolyline(i) ==
    /\ Processed(i)
    /\ ~Degenerate(args.route.steps[i])
    /\ CountersBefore(i).distance + args.route.steps[i].distance
           >= args.distance_between_points
    /\ Beyond(Placement(i), Placement(i).pl, 0)

Least(S) == CHOOSE x \in S : \A y \in S : x <= y

\* as claimed: point k at the first vertex with a preceding length beyond
\* the target, stamped with the floor of fraction * step.distance
PlacedAsClaimed(p, points) ==
    \A k \in 1..Len(points) :
        LET beyond == {v \in 1..Len(p.coordinates) : Beyond(p, Preceding(p, v), k - 1)}
        IN  /\ beyond # {}
            /\ points[k].lat = p.coordinates[Least(beyond)][1]
            /\ points[k].lng = p.coordinates[Least(beyond)][2]
            /\ points[k].distance = p.base + ((p.a + (k - 1) * p.dbp) * p.sd) \div p.sd

RECURSIVE EmittingSectors(_, _, _)
EmittingSectors(p, from, k) ==
    LET beyond == {j \in from..(Len(p.coordinates) - 1) :
                       Beyond(p, Preceding(p, j + 1), k)}
    IN  IF beyond = {} THEN <<>>
        ELSE <<Least(beyond)>> \o EmittingSectors(p, Least(beyond) + 1, k + 1)

\* int(fraction * step.distance) in binary64: the whole number a + k * spacing,
\* or one less where the product falls below it
TruncatedFraction(p, k) ==
    p.a + k * p.dbp - (IF <<p.sd, p.dbp, p.a, k>> \in PercentRoundedDown THEN 1 ELSE 0)

PlacedAtSectorStart(p, points) ==
    LET sectors == EmittingSectors(p, 1, 0)
        expected == IF args.only_first THEN 1 ELSE Len(sectors)
    IN  /\ Len(points) = expected
        /\ \A k \in 1..Len(points) :
               /\ points[k].lat = p.coordinates[sectors[k]][1]
               /\ points[k].lng = p.coordinates[sectors[k]][2]
               /\ points[k].distance = p.base + TruncatedFraction(p, k - 1)
               /\ points[k].distance \in {p.base + p.a + (k - 1) * p.dbp - 1,
                                          p.base + p.a + (k - 1) * p.dbp}

C15_PartialStepDistance ==
    (Called("calculate_left_step") /\ result # <<>>)
        => LET coordinates == VerticesOf(args.step)
               located == NearestVertex(coordinates, args.coordinate)
               remaining == PolylineLength(coordinates, located)
               total == PolylineLength(coordinates, 1)
               partial == result[1]
           IN  /\ partial.distance = (args.step.distance * remaining) \div total
               /\ 0 <= partial.distance
               /\ partial.distance <= args.step.distance
               /\ located = 1 => partial.distance = args.step.distance
               /\ partial.start_location = Location(coordinates[located])
               /\ partial.end_location = Location(coordinates[Len(coordinates)])
               /\ partial.duration = None

=============================================================================
